---- MODULE Spec2Model ----
(***************************************************************************)
(* A model of the nogo edit engine of rules_go (go/tools/builders):        *)
(* the Edit value, SortEdits, UniqueEdits, validateBytes/ApplyEditsBytes,  *)
(* Change.AddEdit and Flatten.                                             *)
(*                                                                         *)
(* Byte strings are sequences of one-character strings.  A Go slice is a   *)
(* sequence (its visible elements) together with its capacity; the growth  *)
(* of capacities follows the gc runtime's append.                          *)
(***************************************************************************)
EXTENDS Integers, Sequences, FiniteSets, TLC

\* ------------------------------------------------------------------ bounds

\* Largest byte offset of an edit in the merge specifications.
MaxOff == 1
\* Most edits AddEdit puts into the Change of specification Spec.
MaxEdits == 4
\* Most edits AddEdit puts into the Change of specification SpecFiles.
MaxFileEdits == 3
\* Longest input list of specification SpecUnique.
MaxUniqueLen == 3
\* Largest offset of an edit in specification SpecUnique.
MaxUniqueOff == 2
\* Longest source buffer and longest edit list of specification SpecApply.
MaxSrcLen == 2
MaxApplyEdits == 2
\* Largest offset, longest buffer and longest edit list of specification
\* SpecOrder; largest offset and longest edit list of specification SpecSort.
MaxOrderOff == 2
MaxOrderSrc == 2
MaxOrderEdits == 2
MaxSortOff == 1
MaxSortLen == 3
\* Most text edits of the diagnostics handed to NewChangeFromDiagnostics.
MaxTextEdits == 2
\* Most calls of AddEdit in specification SpecAdd.
MaxAdds == 3
\* Longest edit list of a file handed to ToCombinedPatch.
MaxPatchEdits == 2
\* Largest offset of an edit and longest list of the first source in
\* specification SpecRule.
MaxRuleOff == 1
MaxRuleLen == 3
\* Largest offset of an edit and longest edit list of specification SpecPermute.
MaxPermOff == 2
MaxPermLen == 3
\* Largest number of bytes of a patch text given to SavePatchesToFile.
MaxPatchLen == 2

\* Replacement texts: a deletion and a one-byte text.
News == {<<>>, <<"a">>}
\* Source (analyzer) identifiers, listed in ascending lexicographic order.
SourceNames == <<"A", "B", "C">>
Sources == {SourceNames[i] : i \in 1..Len(SourceNames)}
\* File paths: of specification Spec, and of specification SpecFiles.
Files == {"f1"}
TwoFiles == {"f1", "f2"}
\* Bytes of a source buffer.
Bytes == {"x", "y"}
\* Replacement texts that tell two edits apart: a deletion and two texts.
Texts == {<<>>, <<"a">>, <<"b">>}

\* ------------------------------------------------------------------ Edit

\* type Edit struct { New string; Start int; End int }
Edit(s, e, n) == [Start |-> s, End |-> e, New |-> n]

\* The well-formed edits with offsets in 0..max.
EditsUpTo(max) ==
    {x \in [Start : 0..max, End : 0..max, New : News] : x.Start <= x.End}

\* A comparison by Start alone.
LessByStart(x, y) == x.Start < y.Start

\* A comparison that also holds for equal (Start, End).
LessOrEqual(x, y) ==
    IF x.Start - y.Start # 0 THEN x.Start - y.Start < 0 ELSE x.End <= y.End

\* editsSort.Less
Less(x, y) ==
    IF x.Start - y.Start # 0 THEN x.Start - y.Start < 0 ELSE x.End < y.End

\* One pass of the insertion sort of sort.Stable: the new element moves left
\* while it is Less than its left neighbour.
RECURSIVE InsertStable(_, _)
InsertStable(s, e) ==
    IF s = <<>> THEN <<e>>
    ELSE IF Less(e, s[Len(s)])
         THEN InsertStable(SubSeq(s, 1, Len(s) - 1), e) \o <<s[Len(s)]>>
         ELSE s \o <<e>>

RECURSIVE SortFrom(_, _)
SortFrom(done, rest) ==
    IF rest = <<>> THEN done
    ELSE SortFrom(InsertStable(done, Head(rest)), Tail(rest))

\* SortEdits: sort.Stable(editsSort(edits)); the value is the slice after it.
SortEdits(edits) == SortFrom(<<>>, edits)

\* A test of the order of the Start offsets alone.
IsSortedByStart(edits) == \A i \in 2..Len(edits) : edits[i].Start >= edits[i - 1].Start

\* sort.IsSorted(editsSort(edits))
IsSorted(edits) == \A i \in 2..Len(edits) : ~Less(edits[i], edits[i - 1])

\* equivalent := func(x, y Edit) bool
equivalent(x, y) == x.Start = y.Start /\ x.End = y.End /\ x.New = y.New

\* Capacity of the slice append returns for a slice of length len and capacity
\* cap that receives n elements (runtime growslice below 256 elements).
AppendCap(cap, len, n) ==
    IF len + n <= cap THEN cap
    ELSE IF len + n > 2 * cap THEN len + n ELSE 2 * cap

\* The overlap test of UniqueEdits with touching edits taken for overlapping.
overlappingOrTouching(prev, cur) == prev.End >= cur.Start

\* if prev.End > cur.Start { invalid = i }
overlapping(prev, cur) == prev.End > cur.Start

\* The loop of UniqueEdits over the sorted slice s, from 1-based position i.
RECURSIVE UniqueScan(_, _, _, _, _)
UniqueScan(s, i, unique, cap, invalid) ==
    IF i > Len(s) THEN [unique |-> unique, cap |-> cap, invalid |-> invalid]
    ELSE LET prev == s[i - 1]
             cur == s[i]
         IN IF ~equivalent(prev, cur)
            THEN UniqueScan(s, i + 1, Append(unique, cur),
                            AppendCap(cap, Len(unique), 1),
                            IF overlapping(prev, cur) THEN i - 1 ELSE invalid)
            ELSE UniqueScan(s, i + 1, unique, cap, invalid)

\* UniqueEdits(edits): sorted is the argument slice after the call (it is
\* sorted in place), unique and cap the returned slice, invalid the returned
\* index (0-based, as in the source).
UniqueEdits(edits) ==
    IF Len(edits) = 0
    THEN [sorted |-> edits, unique |-> <<>>, cap |-> 0, invalid |-> -1]
    ELSE LET s == SortEdits(edits)
             r == UniqueScan(s, 2, <<s[1]>>, 1, -1)
         IN [sorted |-> s, unique |-> r.unique, cap |-> r.cap, invalid |-> r.invalid]

\* ------------------------------------------------------------------ maps

\* A Go map is a function whose domain is the set of keys present.
EmptyMap == [k \in {} |-> <<>>]
MapPut(m, k, v) == [x \in DOMAIN m \cup {k} |-> IF x = k THEN v ELSE m[x]]

\* The orders in which a range loop may visit the keys S of a map.
IterationOrders(S) ==
    {o \in [1..Cardinality(S) -> S] : \A i, j \in 1..Cardinality(S) : o[i] = o[j] => i = j}

\* Lexicographic order of the source identifiers.
Rank(a) == CHOOSE i \in 1..Len(SourceNames) : SourceNames[i] = a
StrLess(a, b) == Rank(a) < Rank(b)

RECURSIVE InsertString(_, _)
InsertString(s, a) ==
    IF s = <<>> THEN <<a>>
    ELSE IF StrLess(a, s[Len(s)])
         THEN InsertString(SubSeq(s, 1, Len(s) - 1), a) \o <<s[Len(s)]>>
         ELSE s \o <<a>>

RECURSIVE SortStringsFrom(_, _)
SortStringsFrom(done, rest) ==
    IF rest = <<>> THEN done
    ELSE SortStringsFrom(InsertString(done, Head(rest)), Tail(rest))

\* The analyzers left in the order the map's iteration produced.
KeepIterationOrder(analyzers) == analyzers

\* sort.Strings(analyzers)
SortStrings(analyzers) == SortStringsFrom(<<>>, analyzers)

\* ------------------------------------------------------------------ state

VARIABLES
    pc,           \* position of the caller: "populate", "files", "analyzers", "done", or "call"/"returned"
    change,       \* Change.FileToEdits: file -> analyzer -> edit list
    input,        \* the Change as it was handed to Flatten
    todo,         \* files the range loop of Flatten has not visited yet
    file,         \* the file Flatten is merging
    analyzers,    \* the sorted analyzers of that file still to be considered
    mergedEdits,  \* the accumulator of Flatten: its visible elements
    mergedCap,    \* the capacity of the accumulator's backing array
    fileToEdits,  \* the map Flatten returns
    accepted,     \* <<analyzer, file>> pairs whose edits became the accumulator
    rejected,     \* <<analyzer, file>> pairs skipped by the continue statement
    conflicts,    \* the conflicts reported to the caller
    call,         \* the arguments of a call of a pure function
    ret           \* its result

vars == <<pc, change, input, todo, file, analyzers, mergedEdits, mergedCap,
          fileToEdits, accepted, rejected, conflicts, call, ret>>

flattenVars == <<input, todo, file, analyzers, mergedEdits, mergedCap,
                 fileToEdits, accepted, rejected, conflicts>>

NoCall == [fn |-> "none"]

\* The variables of Flatten before it is called, on a Change from NewChange().
Idle ==
    /\ change = EmptyMap
    /\ input = EmptyMap
    /\ todo = {}
    /\ file = ""
    /\ analyzers = <<>>
    /\ mergedEdits = <<>>
    /\ mergedCap = 0
    /\ fileToEdits = EmptyMap
    /\ accepted = {}
    /\ rejected = {}
    /\ conflicts = {}

\* NewChange() followed by nothing else.
Init ==
    /\ pc = "populate"
    /\ Idle
    /\ call = NoCall
    /\ ret = NoCall

\* Number of edits a Change holds.
RECURSIVE SumLens(_, _)
SumLens(m, keys) ==
    IF keys = {} THEN 0
    ELSE LET k == CHOOSE x \in keys : TRUE
         IN Len(m[k]) + SumLens(m, keys \ {k})

RECURSIVE NumEditsIn(_, _)
NumEditsIn(c, fs) ==
    IF fs = {} THEN 0
    ELSE LET f == CHOOSE x \in fs : TRUE
         IN SumLens(c[f], DOMAIN c[f]) + NumEditsIn(c, fs \ {f})

NumEdits(c) == NumEditsIn(c, DOMAIN c)

\* ------------------------------------------------------------------ AddEdit

\* AddEdit with the edit put at the front of the analyzer's list.
ChangeWithEditInFront(c, f, analyzer, edit) ==
    LET fileEdits == IF f \in DOMAIN c THEN c[f] ELSE EmptyMap
        old == IF analyzer \in DOMAIN fileEdits THEN fileEdits[analyzer] ELSE <<>>
    IN MapPut(c, f, MapPut(fileEdits, analyzer, <<edit>> \o old))

\* The FileToEdits of Change c after c.AddEdit(f, analyzer, edit).
ChangeWithEdit(c, f, analyzer, edit) ==
    LET exists == f \in DOMAIN c
        fileEdits == IF exists THEN c[f] ELSE EmptyMap
        old == IF analyzer \in DOMAIN fileEdits THEN fileEdits[analyzer] ELSE <<>>
    IN MapPut(c, f, MapPut(fileEdits, analyzer, Append(old, edit)))

\* func (c *Change) AddEdit(file string, analyzer string, edit Edit)
AddEdit(f, analyzer, edit) ==
    /\ pc = "populate"
    /\ change' = ChangeWithEdit(change, f, analyzer, edit)
    /\ UNCHANGED <<pc, flattenVars, call, ret>>

\* ------------------------------------------------------------------ Flatten

\* Flatten is entered: fileToEdits := make(map[string][]Edit).
FlattenCall ==
    /\ pc = "populate"
    /\ pc' = "files"
    /\ input' = change
    /\ todo' = DOMAIN change
    /\ fileToEdits' = EmptyMap
    /\ UNCHANGED <<change, file, analyzers, mergedEdits, mergedCap,
                   accepted, rejected, conflicts, call, ret>>

\* The accumulator of the file before carried over to the next file.
KeepAccumulator(merged) == merged

\* mergedEdits := make([]Edit, 0), whatever the accumulator of the file before.
NewAccumulator(merged) == <<>>

\* The range loop reaches a file: its analyzers are collected in the map's
\* iteration order and sorted, and the accumulator is make([]Edit, 0).
FlattenFile ==
    /\ pc = "files"
    /\ \E f \in todo :
         \E order \in IterationOrders(DOMAIN change[f]) :
            /\ file' = f
            /\ todo' = todo \ {f}
            /\ analyzers' = SortStrings(order)
    /\ mergedEdits' = NewAccumulator(mergedEdits)
    /\ mergedCap' = 0
    /\ pc' = "analyzers"
    /\ UNCHANGED <<change, input, fileToEdits, accepted, rejected, conflicts, call, ret>>

\* The result of one round of the inner loop of Flatten for analyzer a of
\* file f, given the accumulator (merged, cap) and the analyzer's slice edits0.
\*   own is the analyzer's slice after UniqueEdits sorted it in place;
\*   shared tells whether append wrote into the accumulator's backing array;
\*   skip is the continue branch; merged and cap are the accumulator afterwards.
MergeAnalyzer(merged, cap, edits0) ==
    LET u1 == UniqueEdits(edits0)
        edits == u1.unique
        shared == Len(merged) + Len(edits) <= cap
        candidateEdits == merged \o edits
        u2 == UniqueEdits(candidateEdits)
        skip == u2.invalid >= 0
    IN [own |-> u1.sorted,
        shared |-> shared,
        skip |-> skip,
        merged |-> IF skip
                   THEN IF shared THEN SubSeq(u2.sorted, 1, Len(merged)) ELSE merged
                   ELSE u2.unique,
        cap |-> IF skip THEN cap ELSE u2.cap]

\* Record of a skipped analyzer for the caller.
RecordConflict(cs, analyzer, f) == cs \cup {<<analyzer, f>>}

\* One round of "for _, analyzer := range analyzers".
FlattenAnalyzer ==
    /\ pc = "analyzers"
    /\ analyzers # <<>>
    /\ LET analyzer == Head(analyzers)
           r == MergeAnalyzer(mergedEdits, mergedCap, change[file][analyzer])
       IN /\ change' = [change EXCEPT ![file][analyzer] = r.own]
          /\ mergedEdits' = r.merged
          /\ mergedCap' = r.cap
          /\ accepted' = IF r.skip THEN accepted ELSE accepted \cup {<<analyzer, file>>}
          /\ rejected' = IF r.skip THEN rejected \cup {<<analyzer, file>>} ELSE rejected
          /\ conflicts' = IF r.skip THEN RecordConflict(conflicts, analyzer, file) ELSE conflicts
    /\ analyzers' = Tail(analyzers)
    /\ UNCHANGED <<pc, input, todo, file, fileToEdits, call, ret>>

\* fileToEdits[file] = mergedEdits
FlattenStore ==
    /\ pc = "analyzers"
    /\ analyzers = <<>>
    /\ fileToEdits' = MapPut(fileToEdits, file, mergedEdits)
    /\ pc' = "files"
    /\ UNCHANGED <<change, input, todo, file, analyzers, mergedEdits, mergedCap,
                   accepted, rejected, conflicts, call, ret>>

\* return fileToEdits
FlattenReturn ==
    /\ pc = "files"
    /\ todo = {}
    /\ pc' = "done"
    /\ UNCHANGED <<change, flattenVars, call, ret>>

Flatten == FlattenCall \/ FlattenFile \/ FlattenAnalyzer \/ FlattenStore \/ FlattenReturn

\* A Change of one file is populated and flattened.
Populate ==
    /\ NumEdits(change) < MaxEdits
    /\ \E f \in Files, a \in Sources, e \in EditsUpTo(MaxOff) : AddEdit(f, a, e)

Next == Populate \/ Flatten

Spec == Init /\ [][Next]_vars

\* A Change of up to two files is populated and flattened.
PopulateFiles ==
    /\ NumEdits(change) < MaxFileEdits
    /\ \E f \in TwoFiles, a \in Sources, e \in EditsUpTo(MaxOff) : AddEdit(f, a, e)

NextFiles == PopulateFiles \/ Flatten

SpecFiles == Init /\ [][NextFiles]_vars

\* ------------------------------------------------------------------ ApplyEditsBytes

\* !(0 <= edit.Start && edit.Start <= edit.End && edit.End <= len(src))
outOfBounds(edit, n) == ~(0 <= edit.Start /\ edit.Start <= edit.End /\ edit.End <= n)

\* The overlap test of validateBytes with touching edits taken for overlapping.
overlapsOrTouchesPrevious(edit, lastEnd) == edit.Start <= lastEnd

\* The overlap test of validateBytes left out.
overlapIgnored(edit, lastEnd) == FALSE

\* if edit.Start < lastEnd
overlapsPrevious(edit, lastEnd) == edit.Start < lastEnd

\* The loop of validateBytes from 1-based position i.
RECURSIVE ValidateScan(_, _, _, _, _)
ValidateScan(n, edits, i, size, lastEnd) ==
    IF i > Len(edits) THEN [edits |-> edits, size |-> size, err |-> "nil"]
    ELSE LET edit == edits[i]
         IN IF outOfBounds(edit, n)
            THEN [edits |-> <<>>, size |-> 0, err |-> "out-of-bounds"]
            ELSE IF overlapsPrevious(edit, lastEnd)
                 THEN [edits |-> <<>>, size |-> 0, err |-> "overlapping"]
                 ELSE ValidateScan(n, edits, i + 1,
                                   size + Len(edit.New) + edit.Start - edit.End,
                                   edit.End)

\* validateBytes without the sorting of an unsorted argument.
validateBytesUnsorted(src, edits) == ValidateScan(Len(src), edits, 1, Len(src), 0)

\* validateBytes(src, edits): a sorted copy is made when the argument is not sorted.
validateBytes(src, edits) ==
    LET sorted == IF ~IsSorted(edits) THEN SortEdits(edits) ELSE edits
    IN ValidateScan(Len(src), sorted, 1, Len(src), 0)

\* src[lo:hi] for 0 <= lo <= hi <= len(src)
Slice(src, lo, hi) == SubSeq(src, lo + 1, hi)

\* The loop of ApplyEditsBytes from 1-based position i.
RECURSIVE ApplyScan(_, _, _, _, _)
ApplyScan(src, edits, i, out, lastEnd) ==
    IF i > Len(edits) THEN out \o Slice(src, lastEnd, Len(src))
    ELSE LET edit == edits[i]
             gap == IF lastEnd < edit.Start THEN Slice(src, lastEnd, edit.Start) ELSE <<>>
         IN ApplyScan(src, edits, i + 1, out \o gap \o edit.New, edit.End)

\* ApplyEditsBytes(src, edits): isNil tells that the returned slice is nil.
ApplyEditsBytes(src, edits) ==
    LET v == validateBytes(src, edits)
    IN IF v.err # "nil"
       THEN [out |-> <<>>, isNil |-> TRUE, err |-> v.err]
       ELSE LET out == ApplyScan(src, v.edits, 1, <<>>, 0)
            IN IF Len(out) # v.size
               THEN [out |-> <<>>, isNil |-> TRUE, err |-> "panic: wrong size"]
               ELSE [out |-> out, isNil |-> FALSE, err |-> "nil"]

\* ------------------------------------------------------------------ Flatten followed by ApplyEditsBytes

\* out, err := ApplyEditsBytes(contents, edits) on the merged list Flatten
\* returned for a file whose contents reach to the largest offset of an edit.
ApplyMergedCall ==
    /\ pc = "done"
    /\ \E f \in DOMAIN fileToEdits, contents \in [1..MaxOff -> Bytes] :
          /\ call' = [fn |-> "ApplyEditsBytes", file |-> f, src |-> contents,
                      edits |-> fileToEdits[f]]
          /\ ret' = ApplyEditsBytes(contents, fileToEdits[f])
    /\ pc' = "returned"
    /\ UNCHANGED <<change, flattenVars>>

NextMerged == Populate \/ Flatten \/ ApplyMergedCall

SpecMerged == Init /\ [][NextMerged]_vars

\* ------------------------------------------------------------------ ApplyEdits, the string implementation

\* validate(src string, edits []Edit): a sorted copy is made when the argument
\* is not sorted.
validate(src, edits) ==
    LET sorted == IF ~IsSorted(edits) THEN SortEdits(edits) ELSE edits
    IN ValidateScan(Len(src), sorted, 1, Len(src), 0)

\* ApplyEdits(src string, edits []Edit): the string is the sequence of its bytes.
ApplyEdits(src, edits) ==
    LET v == validate(src, edits)
    IN IF v.err # "nil"
       THEN [out |-> <<>>, err |-> v.err]
       ELSE LET out == ApplyScan(src, v.edits, 1, <<>>, 0)
            IN IF Len(out) # v.size
               THEN [out |-> <<>>, err |-> "panic: wrong size"]
               ELSE [out |-> out, err |-> "nil"]

\* The caller's slice after validateBytes: the sorting is done on a copy,
\* edits = append([]Edit(nil), edits...), so the slice is as it was.
sliceAfterValidate(edits) == edits

\* ------------------------------------------------------------------ calls of the pure functions

\* The edits handed to UniqueEdits: any two offsets, in either order.
UniqueInputEdits == [Start : 0..MaxUniqueOff, End : 0..MaxUniqueOff, New : News]

InitUnique ==
    /\ pc = "call"
    /\ Idle
    /\ ret = NoCall
    /\ \E k \in 0..MaxUniqueLen : \E es \in [1..k -> UniqueInputEdits] :
          call = [fn |-> "UniqueEdits", edits |-> es]

UniqueEditsCall ==
    /\ pc = "call"
    /\ call.fn = "UniqueEdits"
    /\ ret' = UniqueEdits(call.edits)
    /\ pc' = "returned"
    /\ UNCHANGED <<change, flattenVars, call>>

NextUnique == UniqueEditsCall

SpecUnique == InitUnique /\ [][NextUnique]_vars

\* The edits handed to ApplyEditsBytes: offsets from one below 0 to one past
\* the longest buffer, in either order.
ApplyInputEdits ==
    [Start : (0 - 1)..(MaxSrcLen + 1), End : (0 - 1)..(MaxSrcLen + 1), New : News]

InitApply ==
    /\ pc = "call"
    /\ Idle
    /\ ret = NoCall
    /\ \E n \in 0..MaxSrcLen, k \in 0..MaxApplyEdits :
          \E s \in [1..n -> Bytes], es \in [1..k -> ApplyInputEdits] :
             call = [fn |-> "ApplyEditsBytes", src |-> s, edits |-> es]

ApplyEditsBytesCall ==
    /\ pc = "call"
    /\ call.fn = "ApplyEditsBytes"
    /\ ret' = ApplyEditsBytes(call.src, call.edits)
    /\ pc' = "returned"
    /\ UNCHANGED <<change, flattenVars, call>>

NextApply == ApplyEditsBytesCall

SpecApply == InitApply /\ [][NextApply]_vars

\* The edits of specification SpecOrder: well-formed, with three texts.
OrderInputEdits ==
    {x \in [Start : 0..MaxOrderOff, End : 0..MaxOrderOff, New : Texts] : x.Start <= x.End}

InitOrder ==
    /\ pc = "call"
    /\ Idle
    /\ ret = NoCall
    /\ \E n \in 0..MaxOrderSrc, k \in 0..MaxOrderEdits :
          \E s \in [1..n -> Bytes], es \in [1..k -> OrderInputEdits] :
             call = [fn |-> "ApplyEditsBytes", src |-> s, edits |-> es]

NextOrder == ApplyEditsBytesCall

SpecOrder == InitOrder /\ [][NextOrder]_vars

\* The edits handed to SortEdits: any two offsets, in either order.
SortInputEdits == [Start : 0..MaxSortOff, End : 0..MaxSortOff, New : Texts]

InitSort ==
    /\ pc = "call"
    /\ Idle
    /\ ret = NoCall
    /\ \E k \in 0..MaxSortLen : \E es \in [1..k -> SortInputEdits] :
          call = [fn |-> "SortEdits", edits |-> es]

\* SortEdits(edits): ret.edits is the argument slice after the call.
SortEditsCall ==
    /\ pc = "call"
    /\ call.fn = "SortEdits"
    /\ ret' = [fn |-> "SortEdits", edits |-> SortEdits(call.edits)]
    /\ pc' = "returned"
    /\ UNCHANGED <<change, flattenVars, call>>

NextSort == SortEditsCall

SpecSort == InitSort /\ [][NextSort]_vars

\* The calls of AddEdit of specification SpecAdd: a file, an analyzer and an
\* insertion at offset 0 that its text tells apart from the others.
AddEditCalls ==
    [file : TwoFiles, analyzer : Sources, edit : {Edit(0, 0, n) : n \in Texts}]

\* NewChange() and the calls of AddEdit that are to follow it.
InitAdd ==
    /\ pc = "populate"
    /\ Idle
    /\ ret = NoCall
    /\ \E k \in 0..MaxAdds : \E adds \in [1..k -> AddEditCalls] :
          call = [fn |-> "AddEdit", adds |-> adds]

\* The next call of AddEdit.
AddNext ==
    /\ NumEdits(change) < Len(call.adds)
    /\ LET next == call.adds[NumEdits(change) + 1]
       IN AddEdit(next.file, next.analyzer, next.edit)

NextAdd == AddNext

SpecAdd == InitAdd /\ [][NextAdd]_vars

\* The edits of specification SpecPermute.
PermuteEdits ==
    {x \in [Start : 0..MaxPermOff, End : 0..MaxPermOff, New : News] : x.Start <= x.End}

\* The buffer of specification SpecPermute: MaxPermOff bytes, alternating.
PermuteSrc == [i \in 1..MaxPermOff |-> IF i % 2 = 1 THEN "x" ELSE "y"]

\* The orders of k things.
Orders(k) == {p \in [1..k -> 1..k] : \A i, j \in 1..k : p[i] = p[j] => i = j}

\* A buffer, a list of edits in sorted order and the same edits in some order.
InitPermute ==
    /\ pc = "call"
    /\ Idle
    /\ ret = NoCall
    /\ \E k \in 0..MaxPermLen : \E es \in [1..k -> PermuteEdits] :
          /\ IsSorted(es)
          /\ \E p \in Orders(k) :
                call = [fn |-> "ApplyEditsBytes", src |-> PermuteSrc, edits |-> es,
                        permuted |-> [i \in 1..k |-> es[p[i]]]]

\* ApplyEditsBytes(src, edits) on the sorted list.
ApplySortedCall ==
    /\ pc = "call"
    /\ call.fn = "ApplyEditsBytes"
    /\ "permuted" \in DOMAIN call
    /\ ret' = [fn |-> "ApplyEditsBytes", sorted |-> ApplyEditsBytes(call.src, call.edits)]
    /\ pc' = "sorted"
    /\ UNCHANGED <<change, flattenVars, call>>

\* ApplyEditsBytes(src, edits) on the list in the other order: src and slice
\* are the caller's buffer and slice after the call.
ApplyPermutedCall ==
    /\ pc = "sorted"
    /\ ret' = [permuted |-> ApplyEditsBytes(call.src, call.permuted),
               src |-> call.src,
               slice |-> sliceAfterValidate(call.permuted)] @@ ret
    /\ pc' = "permuted"
    /\ UNCHANGED <<change, flattenVars, call>>

\* ApplyEdits(string(src), edits) on the list in the other order.
ApplyEditsCall ==
    /\ pc = "permuted"
    /\ ret' = [reference |-> ApplyEdits(call.src, call.permuted)] @@ ret
    /\ pc' = "returned"
    /\ UNCHANGED <<change, flattenVars, call>>

NextPermute == ApplySortedCall \/ ApplyPermutedCall \/ ApplyEditsCall

SpecPermute == InitPermute /\ [][NextPermute]_vars

\* ------------------------------------------------------------------ NewChangeFromDiagnostics

\* The token.FileSet: a file of one byte under the working directory and an
\* empty file with a relative name, each with its base position and its size.
FileSetFiles ==
    <<[name |-> "/cwd/f1", base |-> 1, size |-> 1],
      [name |-> "f2", base |-> 3, size |-> 0]>>

\* token.NoPos, the positions of the files, and a position past all of them.
NoPos == 0
Positions == 0..4

\* fileSet.File(p): the index of the file with base <= p <= base + size, 0 for nil.
FileOf(p) ==
    IF \E i \in DOMAIN FileSetFiles :
           FileSetFiles[i].base <= p /\ p <= FileSetFiles[i].base + FileSetFiles[i].size
    THEN CHOOSE i \in DOMAIN FileSetFiles :
           FileSetFiles[i].base <= p /\ p <= FileSetFiles[i].base + FileSetFiles[i].size
    ELSE 0

\* file.Offset(p)
Offset(f, p) == p - f.base

\* filepath.Rel(cwd, name): the path below the working directory, or an error
\* for a name that cannot be made relative to it.
Rel(name) ==
    IF name = "/cwd/f1" THEN [path |-> "f1", err |-> FALSE]
    ELSE [path |-> "", err |-> TRUE]

\* The key a file's edits are stored under.
fileRelativePath(f) == IF Rel(f.name).err THEN f.name ELSE Rel(f.name).path

\* The test start > end left out.
startAfterEndIgnored(start, end) == FALSE

\* if start > end
startAfterEnd(start, end) == start > end

\* The test of the end of the file with one position too many allowed.
pastEndOfFileByTwo(end, eof) == end > eof + 1

\* if eof := token.Pos(file.Base() + file.Size()); end > eof
pastEndOfFile(end, eof) == end > eof

\* The body of the innermost loop for one text edit te of analyzer te.analyzer,
\* on the Change c and the errors collected so far.
ConsumeTextEdit(c, allErrors, te) ==
    LET start == te.pos
        end == IF te.end = NoPos THEN te.pos ELSE te.end
        fi == FileOf(te.pos)
    IN IF fi = 0
       THEN [change |-> c,
             errors |-> Append(allErrors, [kind |-> "missing file info", pos |-> te.pos])]
       ELSE LET f == FileSetFiles[fi]
                eof == f.base + f.size
            IN IF startAfterEnd(start, end)
               THEN [change |-> c,
                     errors |-> Append(allErrors, [kind |-> "pos > end", pos |-> start, end |-> end])]
               ELSE IF pastEndOfFile(end, eof)
                    THEN [change |-> c,
                          errors |-> Append(allErrors,
                                            [kind |-> "end past end of file", end |-> end, eof |-> eof])]
                    ELSE [change |-> ChangeWithEdit(c, fileRelativePath(f), te.analyzer,
                                                    Edit(Offset(f, start), Offset(f, end), te.newText)),
                          errors |-> allErrors]

\* The loops over entries, suggested fixes and text edits, in their order.
RECURSIVE ConsumeTextEdits(_, _, _)
ConsumeTextEdits(c, allErrors, tes) ==
    IF tes = <<>> THEN [change |-> c, errors |-> allErrors]
    ELSE LET r == ConsumeTextEdit(c, allErrors, Head(tes))
         IN ConsumeTextEdits(r.change, r.errors, Tail(tes))

\* NewChangeFromDiagnostics(entries, fileSet): the Change and the error returned.
\* cwdOk tells whether os.Getwd() succeeded.
NewChangeFromDiagnostics(tes, cwdOk) ==
    IF ~cwdOk THEN [change |-> EmptyMap, err |-> [kind |-> "getwd"]]
    ELSE LET r == ConsumeTextEdits(EmptyMap, <<>>, tes)
         IN [change |-> r.change,
             err |-> IF Len(r.errors) > 0 THEN [kind |-> "errors", errors |-> r.errors]
                     ELSE [kind |-> "nil"]]

\* The text edits of the diagnostics: the analyzer of the entry, Pos, End and NewText.
TextEdits == [analyzer : {"A", "B"}, pos : Positions, end : Positions, newText : News]

InitDiagnostics ==
    /\ pc = "call"
    /\ Idle
    /\ ret = NoCall
    /\ \E k \in 0..MaxTextEdits, ok \in BOOLEAN : \E tes \in [1..k -> TextEdits] :
          call = [fn |-> "NewChangeFromDiagnostics", textEdits |-> tes, cwdOk |-> ok]

NewChangeFromDiagnosticsCall ==
    /\ pc = "call"
    /\ call.fn = "NewChangeFromDiagnostics"
    /\ LET r == NewChangeFromDiagnostics(call.textEdits, call.cwdOk)
       IN /\ change' = r.change
          /\ ret' = [fn |-> "NewChangeFromDiagnostics", err |-> r.err]
    /\ pc' = "returned"
    /\ UNCHANGED <<flattenVars, call>>

NextDiagnostics == NewChangeFromDiagnosticsCall

SpecDiagnostics == InitDiagnostics /\ [][NextDiagnostics]_vars

\* ------------------------------------------------------------------ ToCombinedPatch

\* The newline byte of a file's content.
NL == "\n"

\* A patch text is a sequence of pieces: the newline, or a piece that stands
\* for a non-empty run of characters without a newline.
NewLine == [piece |-> "newline"]

\* The file paths, in ascending lexicographic order.
PathNames == <<"f1", "f2">>
Paths == {PathNames[i] : i \in 1..Len(PathNames)}

\* SplitLines(s): strings.SplitAfter(s, "\n"), with "\n" added to the last line.
RECURSIVE SplitAfterNL(_, _)
SplitAfterNL(s, line) ==
    IF s = <<>> THEN <<line>>
    ELSE IF Head(s) = NL
         THEN <<Append(line, NL)>> \o SplitAfterNL(Tail(s), <<>>)
         ELSE SplitAfterNL(Tail(s), Append(line, Head(s)))

SplitLines(s) ==
    LET lines == SplitAfterNL(s, <<>>)
    IN [i \in DOMAIN lines |-> IF i = Len(lines) THEN Append(lines[i], NL) ELSE lines[i]]

\* strings.TrimSpace(line) == ""
IsBlank(line) == \A i \in DOMAIN line : line[i] = NL

\* trimWhitespaceHeadAndTail(lines)
RECURSIVE trimWhitespaceHeadAndTail(_)
trimWhitespaceHeadAndTail(lines) ==
    IF Len(lines) > 0 /\ IsBlank(lines[1]) THEN trimWhitespaceHeadAndTail(Tail(lines))
    ELSE IF Len(lines) > 0 /\ IsBlank(lines[Len(lines)])
         THEN trimWhitespaceHeadAndTail(SubSeq(lines, 1, Len(lines) - 1))
         ELSE lines

\* GetUnifiedDiffString(diff): no text when the lines are the same; otherwise
\* the two header lines and the hunks, every line ended by a newline.
GetUnifiedDiffString(A, B, filePath) ==
    IF A = B THEN <<>>
    ELSE <<[piece |-> "--- a/", path |-> filePath], NewLine,
           [piece |-> "+++ b/", path |-> filePath], NewLine,
           [piece |-> "hunks", from |-> A, to |-> B], NewLine>>

\* return "", fmt.Errorf(...) with the text built so far returned instead of "".
errorWithPartialPatch(combinedPatch, kind, filePath) ==
    [patch |-> combinedPatch, err |-> [kind |-> kind, file |-> filePath]]

\* return "", fmt.Errorf("failed to ... file %s: %v", filePath, err)
errorResult(combinedPatch, kind, filePath) ==
    [patch |-> <<>>, err |-> [kind |-> kind, file |-> filePath]]

\* The loop over the sorted file paths and the statements after it. disk maps
\* a path to its content and whether it can be read; reads lists the calls of
\* os.ReadFile.
RECURSIVE CombineFrom(_, _, _, _, _)
CombineFrom(filePaths, edits0, disk, combinedPatch, reads) ==
    IF filePaths = <<>>
    THEN [patch |-> IF Len(combinedPatch) > 0 /\ combinedPatch[Len(combinedPatch)] = NewLine
                    THEN SubSeq(combinedPatch, 1, Len(combinedPatch) - 1)
                    ELSE combinedPatch,
          err |-> [kind |-> "nil"],
          reads |-> reads]
    ELSE LET filePath == Head(filePaths)
         IN IF Len(edits0[filePath]) = 0
            THEN CombineFrom(Tail(filePaths), edits0, disk, combinedPatch, reads)
            ELSE LET edits == UniqueEdits(edits0[filePath]).unique
                     reads1 == Append(reads, filePath)
                 IN IF ~disk[filePath].readable
                    THEN errorResult(combinedPatch, "failed to read file", filePath)
                            @@ [reads |-> reads1]
                    ELSE LET contents == disk[filePath].contents
                             r == ApplyEditsBytes(contents, edits)
                         IN IF r.err = "panic: wrong size"
                            THEN [patch |-> <<>>, err |-> [kind |-> "panic"], reads |-> reads1]
                            ELSE IF r.err # "nil"
                            THEN errorResult(combinedPatch, "failed to apply edits", filePath)
                                    @@ [reads |-> reads1]
                            ELSE CombineFrom(
                                    Tail(filePaths), edits0, disk,
                                    combinedPatch
                                       \o GetUnifiedDiffString(
                                             trimWhitespaceHeadAndTail(SplitLines(contents)),
                                             trimWhitespaceHeadAndTail(SplitLines(r.out)),
                                             filePath)
                                       \o <<NewLine>>,
                                    reads1)

\* ToCombinedPatch(fileToEdits): the keys are collected in the map's iteration
\* order and sorted by sort.Strings.
ToCombinedPatch(edits0, disk) ==
    CombineFrom(SelectSeq(PathNames, LAMBDA path : path \in DOMAIN edits0),
                edits0, disk, <<>>, <<>>)

\* The edits and the file contents of specification SpecPatch.
PatchEdits == {x \in [Start : 0..1, End : 0..1, New : News] : x.Start <= x.End}
PatchEditLists == UNION {[1..k -> PatchEdits] : k \in 0..MaxPatchEdits}
FileContents == {<<>>, <<"x">>, <<"x", NL>>}
DiskFiles ==
    {[readable |-> TRUE, contents |-> c] : c \in FileContents}
       \cup {[readable |-> FALSE, contents |-> <<>>]}

InitPatch ==
    /\ pc = "call"
    /\ Idle
    /\ ret = NoCall
    /\ \E paths \in SUBSET Paths :
          \E m \in [paths -> PatchEditLists],
             d \in [Paths -> DiskFiles] :
             call = [fn |-> "ToCombinedPatch", fileToEdits |-> m, disk |-> d]

ToCombinedPatchCall ==
    /\ pc = "call"
    /\ call.fn = "ToCombinedPatch"
    /\ ret' = ToCombinedPatch(call.fileToEdits, call.disk) @@ [fn |-> "ToCombinedPatch"]
    /\ pc' = "returned"
    /\ UNCHANGED <<change, flattenVars, call>>

NextPatch == ToCombinedPatchCall

SpecPatch == InitPatch /\ [][NextPatch]_vars

\* ------------------------------------------------------------------ nogoValidation

\* A file that was not written, and a file with the content written to it.
NotWritten == [written |-> FALSE, content |-> <<>>]
WrittenWith(content) == [written |-> TRUE, content |-> content]

\* The fix instructions taken for present whatever the fix content.
fixesAssumed(nogoFixContent) == TRUE

\* if len(nogoFixContent) > 0
hasFixes(nogoFixContent) == Len(nogoFixContent) > 0

\* nogoValidation(args) on a file system in which the log file and the
\* temporary fix file hold log and fix (or cannot be read) and the two output
\* files can or cannot be written.
\*   outcome is "nil", "error" or "exit 1"; validationOutput and nogoFixFile
\*   are the two output files afterwards; stderr is what was printed.
nogoValidation(log, outputWritable, fix, fixWritable) ==
    LET nothing == [validationOutput |-> NotWritten, nogoFixFile |-> NotWritten,
                    stderr |-> <<>>]
    IN IF ~log.readable
       THEN [outcome |-> "error"] @@ nothing
       ELSE IF ~outputWritable
       THEN [outcome |-> "error"] @@ nothing
       ELSE LET logged == [validationOutput |-> WrittenWith(log.contents)] @@ nothing
            IN IF ~fix.readable
               THEN [outcome |-> "error"] @@ logged
               ELSE IF ~fixWritable
               THEN [outcome |-> "error"] @@ logged
               ELSE LET copied == [nogoFixFile |-> WrittenWith(fix.contents)] @@ logged
                    IN IF Len(log.contents) > 0
                       THEN [outcome |-> "exit 1",
                             stderr |-> <<[log |-> log.contents,
                                           instructions |-> hasFixes(fix.contents)]>>]
                               @@ copied
                       ELSE [outcome |-> "nil"] @@ copied

\* The log file and the temporary fix file: unreadable, empty, or with content.
InputFiles ==
    {[readable |-> TRUE, contents |-> c] : c \in {<<>>, <<"x">>, <<"y">>, <<"x", "y">>}}
       \cup {[readable |-> FALSE, contents |-> <<>>]}

InitValidation ==
    /\ pc = "call"
    /\ Idle
    /\ ret = NoCall
    /\ \E log \in InputFiles, fix \in InputFiles, ow \in BOOLEAN, fw \in BOOLEAN :
          call = [fn |-> "nogoValidation", log |-> log, outputWritable |-> ow,
                  fix |-> fix, fixWritable |-> fw]

nogoValidationCall ==
    /\ pc = "call"
    /\ call.fn = "nogoValidation"
    /\ ret' = nogoValidation(call.log, call.outputWritable, call.fix, call.fixWritable)
                 @@ [fn |-> "nogoValidation"]
    /\ pc' = "returned"
    /\ UNCHANGED <<change, flattenVars, call>>

NextValidation == nogoValidationCall

SpecValidation == InitValidation /\ [][NextValidation]_vars

\* ------------------------------------------------------------------ SavePatchesToFile, LoadPatchesFromFile

\* A patch text is a string of bytes: a letter, a double quote, a line feed
\* and a byte that is not valid UTF-8 stand for the kinds of byte that
\* encoding/json treats differently.
PatchBytes == {"a", "\"", "\n", "0xFF"}
PatchTexts == UNION {[1..k -> PatchBytes] : k \in 0..MaxPatchLen}

\* The file paths that are the keys of the map.
PatchPaths == {<<"a">>, <<"b">>}

\* U+FFFD, the replacement character, in UTF-8, and the bytes that are not
\* valid UTF-8 on their own.
Replacement == <<"0xEF", "0xBF", "0xBD">>
InvalidAlone == {"0xBD", "0xBF", "0xEF", "0xFF"}

\* The bytes in ascending order of their value.
ByteOrder ==
    <<"\n", " ", "\"", ",", ":", "\\", "a", "b", "d", "f", "n", "u", "{", "}",
      "0xBD", "0xBF", "0xEF", "0xFF">>
ByteRank(b) == CHOOSE i \in 1..Len(ByteOrder) : ByteOrder[i] = b

\* Go's < on strings.
RECURSIVE keyLess(_, _)
keyLess(x, y) ==
    IF y = <<>> THEN FALSE
    ELSE IF x = <<>> THEN TRUE
    ELSE IF Head(x) # Head(y) THEN ByteRank(Head(x)) < ByteRank(Head(y))
    ELSE keyLess(Tail(x), Tail(y))

\* The keys of a map in the order json writes them.
RECURSIVE sortedKeys(_)
sortedKeys(S) ==
    IF S = {} THEN <<>>
    ELSE LET k == CHOOSE x \in S : \A o \in S \ {x} : keyLess(x, o)
         IN <<k>> \o sortedKeys(S \ {k})

\* The bytes json writes between the quotes for s[i..]: a byte that is not
\* valid UTF-8 is written as the escape of U+FFFD.
RECURSIVE appendString(_, _)
appendString(s, i) ==
    IF i > Len(s) THEN <<>>
    ELSE IF s[i] = "\"" THEN <<"\\", "\"">> \o appendString(s, i + 1)
    ELSE IF s[i] = "\\" THEN <<"\\", "\\">> \o appendString(s, i + 1)
    ELSE IF s[i] = "\n" THEN <<"\\", "n">> \o appendString(s, i + 1)
    ELSE IF i + 2 <= Len(s) /\ SubSeq(s, i, i + 2) = Replacement
         THEN Replacement \o appendString(s, i + 3)
    ELSE IF s[i] \in InvalidAlone
         THEN <<"\\", "u", "f", "f", "f", "d">> \o appendString(s, i + 1)
    ELSE <<s[i]>> \o appendString(s, i + 1)

quoted(s) == <<"\"">> \o appendString(s, 1) \o <<"\"">>

RECURSIVE members(_, _, _)
members(patches, keys, i) ==
    IF i > Len(keys) THEN <<>>
    ELSE (IF i > 1 THEN <<",">> ELSE <<>>)
            \o <<"\n", " ", " ">> \o quoted(keys[i])
            \o <<":", " ">> \o quoted(patches[keys[i]])
            \o members(patches, keys, i + 1)

\* json.MarshalIndent(patches, "", "  ")
MarshalIndent(patches) ==
    IF DOMAIN patches = {} THEN <<"{", "}">>
    ELSE <<"{">> \o members(patches, sortedKeys(DOMAIN patches), 1) \o <<"\n", "}">>

\* SavePatchesToFile(filename, patches) on a file that can or cannot be
\* written: the file afterwards and the error.  Serializing a map of strings
\* has no error.
SavePatchesToFile(patches, writable) ==
    IF DOMAIN patches = {}
    THEN IF writable THEN [file |-> WrittenWith(<<>>), err |-> "nil"]
         ELSE [file |-> NotWritten, err |-> "error writing empty string to file"]
    ELSE IF writable THEN [file |-> WrittenWith(MarshalIndent(patches)), err |-> "nil"]
         ELSE [file |-> NotWritten, err |-> "error writing to file"]

WhiteSpace == {" ", "\n"}

RECURSIVE skipSpace(_, _)
skipSpace(data, i) ==
    IF i <= Len(data) /\ data[i] \in WhiteSpace THEN skipSpace(data, i + 1) ELSE i

SyntaxError == [ok |-> FALSE, val |-> <<>>, next |-> 0]

\* The string whose bytes after the opening quote start at data[i]; the
\* escapes are those MarshalIndent writes.
RECURSIVE unquote(_, _, _)
unquote(data, i, acc) ==
    IF i > Len(data) THEN SyntaxError
    ELSE IF data[i] = "\"" THEN [ok |-> TRUE, val |-> acc, next |-> i + 1]
    ELSE IF data[i] = "\n" THEN SyntaxError
    ELSE IF data[i] = "\\"
         THEN IF i + 1 > Len(data) THEN SyntaxError
              ELSE IF data[i + 1] \in {"\"", "\\"}
                   THEN unquote(data, i + 2, Append(acc, data[i + 1]))
              ELSE IF data[i + 1] = "n" THEN unquote(data, i + 2, Append(acc, "\n"))
              ELSE IF /\ data[i + 1] = "u"
                      /\ i + 5 <= Len(data)
                      /\ SubSeq(data, i + 2, i + 5) = <<"f", "f", "f", "d">>
                   THEN unquote(data, i + 6, acc \o Replacement)
              ELSE SyntaxError
    ELSE IF i + 2 <= Len(data) /\ SubSeq(data, i, i + 2) = Replacement
         THEN unquote(data, i + 3, acc \o Replacement)
    ELSE IF data[i] \in InvalidAlone THEN unquote(data, i + 1, acc \o Replacement)
    ELSE unquote(data, i + 1, Append(acc, data[i]))

string(data, i) ==
    IF i <= Len(data) /\ data[i] = "\"" THEN unquote(data, i + 1, <<>>)
    ELSE SyntaxError

\* The members of an object from data[i], stored into m one by one.
RECURSIVE object(_, _, _)
object(data, i, m) ==
    LET k == string(data, skipSpace(data, i))
        c == skipSpace(data, k.next)
        v == string(data, skipSpace(data, c + 1))
        e == skipSpace(data, v.next)
    IN IF ~k.ok THEN SyntaxError
       ELSE IF c > Len(data) \/ data[c] # ":" THEN SyntaxError
       ELSE IF ~v.ok THEN SyntaxError
       ELSE IF e > Len(data) THEN SyntaxError
       ELSE IF data[e] = "," THEN object(data, e + 1, MapPut(m, k.val, v.val))
       ELSE IF data[e] = "}"
            THEN [ok |-> TRUE, val |-> MapPut(m, k.val, v.val), next |-> e + 1]
       ELSE SyntaxError

\* json.Unmarshal(jsonData, &patches)
Unmarshal(jsonData) ==
    LET b == skipSpace(jsonData, 1)
        a == skipSpace(jsonData, b + 1)
        o == IF b > Len(jsonData) \/ jsonData[b] # "{" THEN SyntaxError
             ELSE IF a <= Len(jsonData) /\ jsonData[a] = "}"
                  THEN [ok |-> TRUE, val |-> EmptyMap, next |-> a + 1]
             ELSE object(jsonData, b + 1, EmptyMap)
    IN IF o.ok /\ skipSpace(jsonData, o.next) > Len(jsonData)
       THEN [patches |-> o.val, err |-> "nil"]
       ELSE [patches |-> EmptyMap, err |-> "error deserializing JSON"]

\* LoadPatchesFromFile(filename)
LoadPatchesFromFile(f) ==
    IF ~f.written THEN [patches |-> EmptyMap, err |-> "error reading file"]
    ELSE IF Len(f.content) = 0 THEN [patches |-> EmptyMap, err |-> "nil"]
    ELSE Unmarshal(f.content)

InitPatches ==
    /\ pc = "call"
    /\ Idle
    /\ ret = NoCall
    /\ \E ks \in SUBSET PatchPaths : \E m \in [ks -> PatchTexts] : \E w \in BOOLEAN :
          call = [fn |-> "SavePatchesToFile", patches |-> m, writable |-> w]

SavePatchesToFileCall ==
    /\ pc = "call"
    /\ call.fn = "SavePatchesToFile"
    /\ ret' = SavePatchesToFile(call.patches, call.writable) @@ [fn |-> "SavePatchesToFile"]
    /\ pc' = "saved"
    /\ UNCHANGED <<change, flattenVars, call>>

\* LoadPatchesFromFile on the file SavePatchesToFile was called with.
LoadPatchesFromFileCall ==
    /\ pc = "saved"
    /\ ret' = LoadPatchesFromFile(ret.file)
                 @@ [fn |-> "LoadPatchesFromFile", file |-> ret.file, saveErr |-> ret.err]
    /\ pc' = "returned"
    /\ UNCHANGED <<change, flattenVars, call>>

NextPatches == SavePatchesToFileCall \/ LoadPatchesFromFileCall

SpecPatches == InitPatches /\ [][NextPatches]_vars

\* ------------------------------------------------------------------ properties of Flatten

ToSet(s) == {s[i] : i \in DOMAIN s}

Done == pc = "done"

\* The analyzers accepted for file f.
AcceptedOf(f) == {a \in Sources : <<a, f>> \in accepted}

\* Two different edits conflict when the one that is not ordered after the
\* other ends beyond the other's start.
Conflict(p, q) ==
    /\ p # q
    /\ \/ ~Less(q, p) /\ p.End > q.Start
       \/ ~Less(p, q) /\ q.End > p.Start

\* The edits analyzers S propose for a file, and whether they can stand together.
EditsOf(fileEdits, S) == UNION {ToSet(fileEdits[a]) : a \in S}
Compatible(fileEdits, S) ==
    \A p, q \in EditsOf(fileEdits, S) : ~Conflict(p, q)

\* The largest number of analyzers of a file whose edits can stand together.
MaxCompatible(fileEdits) ==
    CHOOSE n \in 0..Cardinality(DOMAIN fileEdits) :
        /\ \E S \in SUBSET DOMAIN fileEdits : Cardinality(S) = n /\ Compatible(fileEdits, S)
        /\ \A S \in SUBSET DOMAIN fileEdits : Compatible(fileEdits, S) => Cardinality(S) <= n

\* The accumulator after the analyzers as (in that order) were considered,
\* starting from make([]Edit, 0).
RECURSIVE MergeInOrder(_, _, _, _)
MergeInOrder(fileEdits, as, merged, cap) ==
    IF as = <<>> THEN merged
    ELSE LET r == MergeAnalyzer(merged, cap, fileEdits[Head(as)])
         IN MergeInOrder(fileEdits, Tail(as), r.merged, r.cap)

\* The analyzers S in ascending order of identifier.
Ascending(S) == SelectSeq(SourceNames, LAMBDA a : a \in S)

\* C1: whenever Flatten rejects a source, the accumulator after the rejection
\* holds the same edits in the same order as before the source was considered.
C1_RejectionKeepsAccumulator ==
    [][rejected' # rejected => mergedEdits' = mergedEdits]_vars

\* C2: every list Flatten returns is sorted by (Start, End) and pairwise
\* non-overlapping: edits[i].End <= edits[j].Start for all i < j.
C2_MergedSortedNonOverlapping ==
    Done => \A f \in DOMAIN fileToEdits :
        LET l == fileToEdits[f]
        IN /\ IsSorted(l)
           /\ \A i, j \in DOMAIN l : i < j => l[i].End <= l[j].Start

\* C3: for every file some set of sources is accepted as a whole: the merged
\* list holds every edit of every source of the set and nothing else.
C3_SourcesAcceptedAsAWhole ==
    Done => \A f \in DOMAIN fileToEdits :
        \E S \in SUBSET DOMAIN input[f] :
            ToSet(fileToEdits[f]) = EditsOf(input[f], S)

\* C4: the merged lists depend only on the content of the Change, not on the
\* order in which maps are iterated; and when the first source A of a file has
\* edits that stand together and a later source B conflicts with it, A's edits
\* are kept and B is rejected.
C4_DeterministicFirstSourceWins ==
    Done => \A f \in DOMAIN input :
        /\ fileToEdits[f] = MergeInOrder(input[f], Ascending(DOMAIN input[f]), <<>>, 0)
        /\ \A a, b \in DOMAIN input[f] :
              ( /\ a = Ascending(DOMAIN input[f])[1]
                /\ StrLess(a, b)
                /\ Compatible(input[f], {a})
                /\ ~Compatible(input[f], {a, b}) )
              => /\ ToSet(input[f][a]) \subseteq ToSet(fileToEdits[f])
                 /\ <<b, f>> \in rejected

C6_AcceptsAMaximumNumberOfSources ==
    Done => \A f \in DOMAIN input :
        Cardinality(AcceptedOf(f)) = MaxCompatible(input[f])

\* C6 as amended: Flatten accepts greedily; the first source, in ascending
\* order of identifier, whose own edits stand together is accepted, so at
\* least one source is accepted whenever some source stands by itself.
C6_FirstConsistentSourceAccepted ==
    Done => \A f \in DOMAIN input : \A a \in DOMAIN input[f] :
        ( /\ Compatible(input[f], {a})
          /\ \A b \in DOMAIN input[f] : StrLess(b, a) => ~Compatible(input[f], {b}) )
        => <<a, f>> \in accepted

\* A file with three sources of which Flatten accepts one that stands by itself,
\* and yet fewer sources than could stand together.
C6_Witness ==
    /\ Done
    /\ \E f \in DOMAIN input :
          /\ Cardinality(DOMAIN input[f]) = 3
          /\ Cardinality(AcceptedOf(f)) < MaxCompatible(input[f])
          /\ \E a \in DOMAIN input[f] :
                /\ Compatible(input[f], {a})
                /\ <<a, f>> \in accepted

\* C7: no list Flatten returns holds two edits with equal Start, End and New.
C7_MergedDuplicateFree ==
    Done => \A f \in DOMAIN fileToEdits :
        LET l == fileToEdits[f]
        IN \A i, j \in DOMAIN l : i # j => ~equivalent(l[i], l[j])

\* ------------------------------------------------------------------ properties of UniqueEdits

Returned == pc = "returned"

\* C8: the list UniqueEdits returns is sorted by (Start, End), holds exactly
\* the distinct edits of the input, and holds each of them once.
C8_UniqueSortedDistinct ==
    (Returned /\ call.fn = "UniqueEdits") =>
        /\ IsSorted(ret.unique)
        /\ ToSet(ret.unique) = ToSet(call.edits)
        /\ \A i, j \in DOMAIN ret.unique : i # j => ret.unique[i] # ret.unique[j]

\* C9: UniqueEdits signals an overlap (index >= 0) exactly when the input holds
\* two non-equivalent edits p and q, p not ordered after q, with p.End > q.Start.
C9_OverlapSignalledIffPresent ==
    (Returned /\ call.fn = "UniqueEdits") =>
        ( ret.invalid >= 0 <=>
          \E p, q \in ToSet(call.edits) :
              ~equivalent(p, q) /\ ~Less(q, p) /\ p.End > q.Start )

\* An overlap between edits that are not adjacent after sorting, with a
\* touching pair, a duplicate or a second insertion in the input as well.
C9_Witness ==
    /\ Returned /\ call.fn = "UniqueEdits"
    /\ ret.invalid >= 0
    /\ Len(ret.sorted) = 3
    /\ ret.sorted[1].End > ret.sorted[3].Start
    /\ ~equivalent(ret.sorted[1], ret.sorted[3])
    /\ ret.sorted[2].Start = ret.sorted[2].End

\* ------------------------------------------------------------------ properties of ApplyEditsBytes

\* Sum of len(New) + Start - End over the edits of a list.
RECURSIVE SizeDelta(_)
SizeDelta(edits) ==
    IF edits = <<>> THEN 0
    ELSE Len(Head(edits).New) + Head(edits).Start - Head(edits).End + SizeDelta(Tail(edits))

\* Some edit is out of the bounds of a buffer of length n, or some edit starts
\* before the end of an edit that is ordered before it.
InvalidList(edits, n) ==
    \/ \E i \in DOMAIN edits :
          ~(0 <= edits[i].Start /\ edits[i].Start <= edits[i].End /\ edits[i].End <= n)
    \/ \E i, j \in DOMAIN edits :
          i # j /\ ~Less(edits[j], edits[i]) /\ edits[j].Start < edits[i].End

\* C10: ApplyEditsBytes returns an error and no output exactly when some edit
\* is out of bounds or starts before the end of the edit ordered before it; a
\* valid list yields an output that accounts for every edit.
C10_ErrorIffInvalid ==
    (Returned /\ call.fn = "ApplyEditsBytes") =>
        /\ ret.err # "nil" <=> InvalidList(call.edits, Len(call.src))
        /\ ret.err # "nil" => ret.isNil /\ ret.out = <<>>
        /\ ret.err = "nil" =>
              /\ ~ret.isNil
              /\ Len(ret.out) = Len(call.src) + SizeDelta(call.edits)

\* A second edit that starts exactly where the first one ends is accepted.
C10_Witness ==
    /\ Returned /\ call.fn = "ApplyEditsBytes"
    /\ ret.err = "nil"
    /\ Len(call.edits) = 2
    /\ call.edits[1].Start < call.edits[1].End
    /\ call.edits[2].Start = call.edits[1].End
    /\ call.edits[2].Start < call.edits[2].End

\* src[0:e1.Start] ++ e1.New ++ src[e1.End:e2.Start] ++ ... ++ en.New ++ src[en.End:]
\* for the edits es = e1..en, the first piece starting at offset from.
RECURSIVE Spliced(_, _, _)
Spliced(src, es, from) ==
    IF es = <<>> THEN SubSeq(src, from + 1, Len(src))
    ELSE SubSeq(src, from + 1, Head(es).Start) \o Head(es).New
         \o Spliced(src, Tail(es), Head(es).End)

ApplyReturned == Returned /\ call.fn = "ApplyEditsBytes"

\* C11: for every buffer and every edit list that passes validation, taken in
\* (Start, End) order, ApplyEditsBytes returns the pieces of src between the
\* edits with each edit's New in place of its range; an empty list returns a
\* buffer equal to src, an insertion into an empty buffer returns the inserted
\* text, and a deletion of the whole buffer returns the empty buffer.
C11_OutputIsSplicedSource ==
    (ApplyReturned /\ ~InvalidList(call.edits, Len(call.src))) =>
        /\ ret.err = "nil" /\ ~ret.isNil
        /\ ret.out = Spliced(call.src, SortEdits(call.edits), 0)
        /\ call.edits = <<>> => ret.out = call.src
        /\ (call.src = <<>> /\ Len(call.edits) = 1) => ret.out = call.edits[1].New
        /\ call.edits = <<Edit(0, Len(call.src), <<>>)>> => ret.out = <<>>

\* Two valid edits given in descending order, with bytes of src between them.
C11_Witness ==
    /\ ApplyReturned
    /\ ret.err = "nil"
    /\ Len(call.edits) = 2
    /\ call.edits[2].End < call.edits[1].Start
    /\ call.edits[1].End < Len(call.src)
    /\ ret.out # call.src

\* C12: for every input that passes validation the buffer ApplyEditsBytes
\* builds has the size validateBytes computed, len(src) plus the sum of
\* len(New) + Start - End over the edits; the size-mismatch branch is never taken.
C12_SizeAsPrecomputed ==
    ApplyReturned =>
        /\ ret.err # "panic: wrong size"
        /\ validateBytes(call.src, call.edits).err = "nil" =>
              /\ ret.err = "nil"
              /\ Len(ret.out) = validateBytes(call.src, call.edits).size
              /\ Len(ret.out) = Len(call.src) + SizeDelta(call.edits)

\* A valid list with one edit that grows the buffer and one that shrinks it.
C12_Witness ==
    /\ ApplyReturned
    /\ ret.err = "nil"
    /\ \E i, j \in DOMAIN call.edits :
          /\ Len(call.edits[i].New) > call.edits[i].End - call.edits[i].Start
          /\ Len(call.edits[j].New) < call.edits[j].End - call.edits[j].Start
    /\ Len(ret.out) # Len(call.src)

\* ------------------------------------------------------------------ properties of the order of edits

\* ins is a zero-width insertion at the offset where the deletion or
\* replacement rep starts, and rep lies within a buffer of length n.
InsertionAtStartOf(ins, rep, n) ==
    /\ ins.Start = ins.End
    /\ rep.Start = ins.Start
    /\ rep.End > rep.Start
    /\ rep.End <= n

StablePlace(edits, i) ==
    1 + Cardinality({j \in DOMAIN edits :
                       \/ edits[j].Start < edits[i].Start
                       \/ /\ edits[j].Start = edits[i].Start
                          /\ edits[j].End < edits[i].End
                       \/ /\ edits[j].Start = edits[i].Start
                          /\ edits[j].End = edits[i].End
                          /\ j < i})

\* The list edits in that order.
StableOrder(edits) ==
    [k \in DOMAIN edits |-> edits[CHOOSE i \in DOMAIN edits : StablePlace(edits, i) = k]]

\* Number of positions of list s that hold x.
Count(s, x) == Cardinality({i \in DOMAIN s : s[i] = x})

SortReturned == Returned /\ call.fn = "SortEdits"

\* C14: SortEdits returns a permutation of its input ordered by Start and then
\* End ascending; edits with identical (Start, End) keep their relative input
\* order; sorting a sorted list leaves it unchanged.
C14_SortStablePermutationIdempotent ==
    SortReturned =>
        /\ Len(ret.edits) = Len(call.edits)
        /\ \A x \in ToSet(call.edits) \cup ToSet(ret.edits) :
              Count(ret.edits, x) = Count(call.edits, x)
        /\ \A i, j \in DOMAIN ret.edits : i < j =>
              \/ ret.edits[i].Start < ret.edits[j].Start
              \/ ret.edits[i].Start = ret.edits[j].Start /\ ret.edits[i].End <= ret.edits[j].End
        /\ ret.edits = StableOrder(call.edits)
        /\ SortEdits(ret.edits) = ret.edits
        /\ IsSorted(call.edits) => ret.edits = call.edits

\* Two insertions at one point with different texts are given before an edit
\* that is ordered before them.
C14_Witness ==
    /\ SortReturned
    /\ Len(call.edits) = 3
    /\ call.edits[1].Start = call.edits[1].End
    /\ call.edits[1].Start = call.edits[2].Start
    /\ call.edits[1].End = call.edits[2].End
    /\ call.edits[1].New # call.edits[2].New
    /\ Less(call.edits[3], call.edits[1])
    /\ ret.edits = <<call.edits[3], call.edits[1], call.edits[2]>>

\* The list edits in the order of Start ascending, edits with the same Start
\* in input order.
StartOrder(edits) ==
    LET place(i) ==
            1 + Cardinality({j \in DOMAIN edits :
                               \/ edits[j].Start < edits[i].Start
                               \/ edits[j].Start = edits[i].Start /\ j < i})
    IN [k \in DOMAIN edits |-> edits[CHOOSE i \in DOMAIN edits : place(i) = k]]

\* The edits in the order in which the loop of ApplyEditsBytes ranges over them.
AppliedOrder == validateBytes(call.src, call.edits).edits

DiagnosticsReturned == Returned /\ call.fn = "NewChangeFromDiagnostics"

\* The end of a text edit: its Pos when its End is unset.
EndOf(te) == IF te.end = NoPos THEN te.pos ELSE te.end

\* The files of the file set that hold position p.
Holding(p) ==
    {f \in ToSet(FileSetFiles) : f.base <= p /\ p <= f.base + f.size}

\* What is wrong with a text edit, "none" for a well-formed one.
Problem(te) ==
    IF Holding(te.pos) = {} THEN "missing file info"
    ELSE IF te.pos > EndOf(te) THEN "pos > end"
    ELSE IF \A f \in Holding(te.pos) : EndOf(te) > f.base + f.size THEN "end past end of file"
    ELSE "none"

Malformed(tes) == SelectSeq(tes, LAMBDA te : Problem(te) # "none")
WellFormed(tes) == SelectSeq(tes, LAMBDA te : Problem(te) = "none")

\* The path, relative to the working directory, of the file that holds p.
PathOf(p) == IF p <= 2 THEN "f1" ELSE "f2"
SizeOfPath(path) == IF path = "f1" THEN FileSetFiles[1].size ELSE FileSetFiles[2].size
BaseOfPath(path) == IF path = "f1" THEN FileSetFiles[1].base ELSE FileSetFiles[2].base

\* The edits a (file, analyzer) bucket is to hold for the text edits tes.
ExpectedBucket(tes, path, analyzer) ==
    LET mine == SelectSeq(WellFormed(tes),
                          LAMBDA te : PathOf(te.pos) = path /\ te.analyzer = analyzer)
    IN [i \in DOMAIN mine |->
          Edit(mine[i].pos - BaseOfPath(path), EndOf(mine[i]) - BaseOfPath(path),
               mine[i].newText)]

\* The edits of a bucket of Change c, none for an absent bucket.
Bucket(c, path, analyzer) ==
    IF path \in DOMAIN c /\ analyzer \in DOMAIN c[path] THEN c[path][analyzer] ELSE <<>>

\* The error lists the malformed text edits in their order, and the Change
\* holds the well-formed ones and nothing else.
ReportsAllAndKeepsTheRest ==
    LET bad == Malformed(call.textEdits)
    IN /\ Len(bad) = 0 => ret.err.kind = "nil"
       /\ Len(bad) > 0 =>
             /\ ret.err.kind = "errors"
             /\ Len(ret.err.errors) = Len(bad)
             /\ \A i \in DOMAIN bad :
                   /\ ret.err.errors[i].kind = Problem(bad[i])
                   /\ Problem(bad[i]) = "missing file info" => ret.err.errors[i].pos = bad[i].pos
                   /\ Problem(bad[i]) = "pos > end" =>
                         ret.err.errors[i].pos = bad[i].pos /\ ret.err.errors[i].end = bad[i].end
                   /\ Problem(bad[i]) = "end past end of file" =>
                         ret.err.errors[i].end = bad[i].end
       /\ DOMAIN change \subseteq {"f1", "f2"}
       /\ \A path \in DOMAIN change : DOMAIN change[path] \subseteq {"A", "B"}
       /\ \A path \in {"f1", "f2"}, analyzer \in {"A", "B"} :
             Bucket(change, path, analyzer) = ExpectedBucket(call.textEdits, path, analyzer)

C17_StoredEditsInBounds ==
    DiagnosticsReturned =>
        /\ \A path \in DOMAIN change : \A analyzer \in DOMAIN change[path] :
              \A i \in DOMAIN change[path][analyzer] :
                 LET e == change[path][analyzer][i]
                 IN 0 <= e.Start /\ e.Start <= e.End /\ e.End <= SizeOfPath(path)
        /\ call.cwdOk =>
              \A i \in DOMAIN call.textEdits :
                 LET te == call.textEdits[i]
                 IN (te.end = NoPos /\ Holding(te.pos) # {}) =>
                       \E j \in DOMAIN Bucket(change, PathOf(te.pos), te.analyzer) :
                          Bucket(change, PathOf(te.pos), te.analyzer)[j] =
                             Edit(te.pos - BaseOfPath(PathOf(te.pos)),
                                  te.pos - BaseOfPath(PathOf(te.pos)), te.newText)

\* An error is returned for one text edit, and a text edit with an unset End at
\* the end of the one-byte file is stored as an insertion at offset 1.
C17_Witness ==
    /\ DiagnosticsReturned
    /\ ret.err.kind = "errors"
    /\ \E i \in DOMAIN call.textEdits :
          /\ call.textEdits[i].end = NoPos
          /\ call.textEdits[i].pos = FileSetFiles[1].base + FileSetFiles[1].size
          /\ call.textEdits[i].newText # <<>>
    /\ Bucket(change, "f1", "B") = <<Edit(1, 1, <<"a">>)>>

\* ------------------------------------------------------------------ properties of AddEdit

\* The edits of the first n calls of list adds that went to a bucket, in order.
AddedTo(adds, n, f, analyzer) ==
    LET mine == SelectSeq(SubSeq(adds, 1, n),
                          LAMBDA x : x.file = f /\ x.analyzer = analyzer)
    IN [i \in DOMAIN mine |-> mine[i].edit]

\* C18: AddEdit appends the edit at the end of the list of its (file, analyzer)
\* bucket, creating the file entry and the bucket when absent, and leaves
\* every other bucket unchanged: after any sequence of calls each bucket holds
\* exactly the edits added to it, in the order they were added.
C18_BucketsHoldWhatWasAdded ==
    call.fn = "AddEdit" =>
        LET n == NumEdits(change)
        IN /\ \A f \in TwoFiles, analyzer \in Sources :
                 /\ Bucket(change, f, analyzer) = AddedTo(call.adds, n, f, analyzer)
                 /\ (f \in DOMAIN change /\ analyzer \in DOMAIN change[f])
                       <=> AddedTo(call.adds, n, f, analyzer) # <<>>
           /\ DOMAIN change \subseteq TwoFiles
           /\ \A f \in DOMAIN change : DOMAIN change[f] \subseteq Sources

\* An edit for one bucket, an edit for another bucket, then a different edit
\* for the first bucket.
C18_Witness ==
    /\ call.fn = "AddEdit"
    /\ Len(call.adds) = 3
    /\ NumEdits(change) = 3
    /\ call.adds[1].file = call.adds[3].file
    /\ call.adds[1].analyzer = call.adds[3].analyzer
    /\ call.adds[1].edit # call.adds[3].edit
    /\ call.adds[2].file = call.adds[1].file
    /\ call.adds[2].analyzer # call.adds[1].analyzer
    /\ change[call.adds[1].file][call.adds[1].analyzer]
          = <<call.adds[1].edit, call.adds[3].edit>>

\* ------------------------------------------------------------------ properties of ToCombinedPatch

PatchReturned == Returned /\ call.fn = "ToCombinedPatch"

\* The patch of one file of the call, empty for an empty edit list.
PatchOf(path) ==
    LET edits == call.fileToEdits[path]
        contents == call.disk[path].contents
    IN IF Len(edits) = 0 THEN <<>>
       ELSE GetUnifiedDiffString(
               trimWhitespaceHeadAndTail(SplitLines(contents)),
               trimWhitespaceHeadAndTail(
                  SplitLines(ApplyEditsBytes(contents, UniqueEdits(edits).unique).out)),
               path)

\* The paths of the call in ascending order, and those with a non-empty patch.
CallPaths == SelectSeq(PathNames, LAMBDA path : path \in DOMAIN call.fileToEdits)
PatchedPaths == SelectSeq(CallPaths, LAMBDA path : PatchOf(path) # <<>>)

\* The patches of the paths ps with one blank line between consecutive ones.
RECURSIVE JoinedPatches(_)
JoinedPatches(ps) ==
    IF ps = <<>> THEN <<>>
    ELSE IF Len(ps) = 1 THEN PatchOf(ps[1])
    ELSE PatchOf(ps[1]) \o <<NewLine>> \o JoinedPatches(Tail(ps))

\* C19: ToCombinedPatch emits the per-file patches in ascending order of file
\* path with exactly one blank line between consecutive patches and no blank
\* line at the end, also when the edits of a file leave its content unchanged;
\* a file with an empty edit list contributes nothing and is not read, and an
\* empty map yields the empty text.
C19_PatchesJoinedByOneBlankLine ==
    (PatchReturned /\ ret.err.kind = "nil") =>
        /\ ret.patch = JoinedPatches(PatchedPaths)
        /\ \A i \in DOMAIN ret.reads : Len(call.fileToEdits[ret.reads[i]]) > 0
        /\ DOMAIN call.fileToEdits = {} => ret.patch = <<>>

\* The files of the call that cannot be read or whose edits fail validation.
Unreadable(path) ==
    Len(call.fileToEdits[path]) > 0 /\ ~call.disk[path].readable
FailsValidation(path) ==
    /\ Len(call.fileToEdits[path]) > 0
    /\ call.disk[path].readable
    /\ InvalidList(UniqueEdits(call.fileToEdits[path]).unique,
                   Len(call.disk[path].contents))
FailingPaths == SelectSeq(CallPaths, LAMBDA path : Unreadable(path) \/ FailsValidation(path))

\* C20: when a file with a non-empty edit list cannot be read or its edits
\* fail validation, ToCombinedPatch returns an error that names the file and
\* an empty patch text, never a partial patch; no file is read twice and none
\* after the failing one.
C20_ErrorNamesFileAndNoPatch ==
    PatchReturned =>
        /\ FailingPaths = <<>> <=> ret.err.kind = "nil"
        /\ FailingPaths # <<>> =>
              /\ ret.err.kind = IF Unreadable(FailingPaths[1]) THEN "failed to read file"
                                ELSE "failed to apply edits"
              /\ ret.err.file = FailingPaths[1]
              /\ ret.patch = <<>>
              /\ ret.reads[Len(ret.reads)] = FailingPaths[1]
        /\ \A i, j \in DOMAIN ret.reads : ret.reads[i] = ret.reads[j] => i = j

\* The first file yields a patch and the edits of the second overlap.
C20_Witness ==
    /\ PatchReturned
    /\ DOMAIN call.fileToEdits = {"f1", "f2"}
    /\ PatchOf("f1") # <<>>
    /\ call.disk["f2"].readable
    /\ ret.err.kind = "failed to apply edits"
    /\ ret.err.file = "f2"
    /\ Len(call.fileToEdits["f2"]) = 2
    /\ ~outOfBounds(call.fileToEdits["f2"][1], Len(call.disk["f2"].contents))
    /\ ~outOfBounds(call.fileToEdits["f2"][2], Len(call.disk["f2"].contents))
    /\ ret.patch = <<>>

\* ------------------------------------------------------------------ properties of nogoValidation

ValidationReturned == Returned /\ call.fn = "nogoValidation"

\* C21: whenever an invocation of nogoValidation ends, by returning nil, by
\* returning an error (log file or fix file unreadable, fix file not writable)
\* or by exiting with failure, the validation output file, if it can be
\* written at all, has been written, with the content of the log.
C21_ValidationOutputAlwaysWritten ==
    (ValidationReturned /\ call.outputWritable) =>
        /\ ret.validationOutput.written
        /\ ret.validationOutput.content = call.log.contents

\* All reads and writes of the invocation succeed.
AllFilesOk ==
    call.log.readable /\ call.outputWritable /\ call.fix.readable /\ call.fixWritable

\* C22: when all reads and writes succeed, nogoValidation exits with status 1
\* exactly when the log is non-empty and returns nil otherwise; the fix
\* instructions are printed exactly when log and fix content are both
\* non-empty, and nothing is printed for an empty log.
C22_FailsIffLogNonEmpty ==
    (ValidationReturned /\ AllFilesOk) =>
        /\ ret.outcome = "exit 1" <=> call.log.contents # <<>>
        /\ ret.outcome = "nil" <=> call.log.contents = <<>>
        /\ (\E i \in DOMAIN ret.stderr : ret.stderr[i].instructions)
              <=> (call.log.contents # <<>> /\ call.fix.contents # <<>>)
        /\ call.log.contents = <<>> => ret.stderr = <<>>
        /\ call.log.contents # <<>> =>
              Len(ret.stderr) = 1 /\ ret.stderr[1].log = call.log.contents

\* A non-empty fix file with an empty log: nothing printed, nil returned.
C22_Witness ==
    /\ ValidationReturned /\ AllFilesOk
    /\ call.log.contents = <<>>
    /\ call.fix.contents # <<>>
    /\ ret.outcome = "nil"
    /\ ret.stderr = <<>>
    /\ ret.nogoFixFile = WrittenWith(call.fix.contents)

\* ------------------------------------------------------------------ Flatten of a Change of three sources

\* The edits of specification SpecRule.
RuleEdits ==
    {x \in [Start : 0..MaxRuleOff, End : 0..MaxRuleOff, New : News] : x.Start <= x.End}

\* A Change of one file after the calls of AddEdit that gave its first source
\* up to MaxRuleLen edits and each of the two later sources one.
InitRule ==
    /\ pc = "populate"
    /\ input = EmptyMap
    /\ todo = {}
    /\ file = ""
    /\ analyzers = <<>>
    /\ mergedEdits = <<>>
    /\ mergedCap = 0
    /\ fileToEdits = EmptyMap
    /\ accepted = {}
    /\ rejected = {}
    /\ conflicts = {}
    /\ call = NoCall
    /\ ret = NoCall
    /\ \E k \in 1..MaxRuleLen :
          \E la \in [1..k -> RuleEdits], lb \in [1..1 -> RuleEdits], lc \in [1..1 -> RuleEdits] :
             change = MapPut(EmptyMap, "f1",
                             MapPut(MapPut(MapPut(EmptyMap, "A", la), "B", lb), "C", lc))

NextRule == Flatten

SpecRule == InitRule /\ [][NextRule]_vars

\* ------------------------------------------------------------------ the rule of Flatten

\* The analyzers the rule accepts: each analyzer of as, in that order, joins
\* the accepted set S when its edits and those of S can stand together.
RECURSIVE AcceptedByRule(_, _, _)
AcceptedByRule(fileEdits, as, S) ==
    IF as = <<>> THEN S
    ELSE AcceptedByRule(fileEdits, Tail(as),
                        IF Compatible(fileEdits, S \cup {Head(as)})
                        THEN S \cup {Head(as)} ELSE S)

\* C24: taking the sources of a file in ascending order of identifier, Flatten
\* accepts a source exactly when its edits and the edits of the sources
\* accepted before it hold no overlap once exact duplicates are removed; so a
\* source overlapping itself is rejected, and a rejected source does not keep
\* a later source from being accepted.
C24_AcceptedExactlyByTheRule ==
    Done => \A f \in DOMAIN input :
        AcceptedOf(f) = AcceptedByRule(input[f], Ascending(DOMAIN input[f]), {})

\* ------------------------------------------------------------------ the files of Flatten

\* The analyzers of as (in that order) that are accepted, starting from the
\* accumulator (merged, cap).
RECURSIVE AcceptedInOrder(_, _, _, _)
AcceptedInOrder(fileEdits, as, merged, cap) ==
    IF as = <<>> THEN {}
    ELSE LET r == MergeAnalyzer(merged, cap, fileEdits[Head(as)])
         IN (IF r.skip THEN {} ELSE {Head(as)})
               \cup AcceptedInOrder(fileEdits, Tail(as), r.merged, r.cap)

\* C25: the merged list of a file and the sources accepted for it are those of
\* Flatten on a Change holding that file alone, whatever the other files hold
\* and in whatever order the files are visited; and the returned map has
\* exactly the files of the Change as keys.
C25_FilesAreIndependent ==
    Done =>
        /\ DOMAIN fileToEdits = DOMAIN input
        /\ \A f \in DOMAIN input :
              /\ fileToEdits[f] = MergeInOrder(input[f], Ascending(DOMAIN input[f]), <<>>, 0)
              /\ AcceptedOf(f) = AcceptedInOrder(input[f], Ascending(DOMAIN input[f]), <<>>, 0)

\* A source rejected in one file and accepted in another file.
C25_Witness ==
    /\ Done
    /\ \E f, g \in DOMAIN input : \E b \in Sources :
          /\ f # g
          /\ <<b, f>> \in rejected
          /\ <<b, g>> \in accepted
          /\ fileToEdits[f] # <<>>
          /\ fileToEdits[g] = input[g][b]

\* ------------------------------------------------------------------ Flatten and its argument

\* C26: when Flatten has returned, every edit list of the Change it was given
\* holds the same edits in the same order as when Flatten was called.
C26_ChangeNotModified ==
    Done => change = input

\* ------------------------------------------------------------------ the merged list applied

\* The edits of a Change are within a buffer of n bytes.
InBounds(c, n) ==
    \A f \in DOMAIN c : \A a \in DOMAIN c[f] : \A i \in DOMAIN c[f][a] :
        ~outOfBounds(c[f][a][i], n)

\* C27: for a Change whose edits are all within the contents of their file,
\* ApplyEditsBytes returns no error on the list Flatten returned for a file.
C27_MergedListIsApplied ==
    (pc = "returned" /\ call.fn = "ApplyEditsBytes" /\ InBounds(input, Len(call.src))) =>
        ret.err = "nil"

\* ------------------------------------------------------------------ ApplyEditsBytes on a permuted list

PermutedReturned == pc = "returned" /\ call.fn = "ApplyEditsBytes" /\ "permuted" \in DOMAIN call

\* No two edits of the list have the same Start and the same End.
DistinctRanges(edits) ==
    \A i, j \in DOMAIN edits :
        (edits[i].Start = edits[j].Start /\ edits[i].End = edits[j].End) => i = j

TwoReplacementsAtOnePoint(edits) ==
    \E i, j \in DOMAIN edits :
        /\ i # j
        /\ edits[i].Start = edits[j].Start
        /\ edits[i].End > edits[i].Start
        /\ edits[j].End > edits[j].Start

\* Every edit of the list is an insertion at offset off.
InsertionsAt(edits, off) ==
    \A i \in DOMAIN edits : edits[i].Start = off /\ edits[i].End = off

\* The texts of the edits one after the other.
RECURSIVE TextsOf(_)
TextsOf(edits) == IF edits = <<>> THEN <<>> ELSE Head(edits).New \o TextsOf(Tail(edits))

\* Insertions at one offset within the buffer are accepted and the text of
\* each is in the output, at that offset, in the order of the list.
InsertionsAtOnePointEmitted ==
    \A off \in 0..Len(call.src) :
        InsertionsAt(call.edits, off) =>
            /\ ret.err = "nil"
            /\ ret.out = SubSeq(call.src, 1, off) \o TextsOf(call.edits)
                            \o SubSeq(call.src, off + 1, Len(call.src))

\* C29 as claimed: ApplyEditsBytes returns the overlap error for every list
\* holding two edits with the same Start and End > Start, be they duplicates
\* or not; insertions at one offset are accepted and each is emitted.
C29_TwoReplacementsAtOnePointOverlap ==
    ApplyReturned =>
        /\ TwoReplacementsAtOnePoint(call.edits) => ret.err = "overlapping"
        /\ InsertionsAtOnePointEmitted

\* C29, amended: for every list holding two edits with the same Start and
\* End > Start ApplyEditsBytes returns an error, and the error is the overlap
\* error when every edit of the list is within the buffer; insertions at one
\* offset are accepted and each is emitted.
C29_TwoReplacementsAtOnePointRejected ==
    ApplyReturned =>
        /\ TwoReplacementsAtOnePoint(call.edits) =>
              /\ ret.err \in {"overlapping", "out-of-bounds"}
              /\ ret.isNil
              /\ (\A i \in DOMAIN call.edits : ~outOfBounds(call.edits[i], Len(call.src)))
                    => ret.err = "overlapping"
        /\ InsertionsAtOnePointEmitted

\* Two exact duplicates of a replacement within the buffer are refused.
C29_Witness ==
    /\ ApplyReturned
    /\ Len(call.edits) = 2
    /\ call.edits[1] = call.edits[2]
    /\ call.edits[1].End > call.edits[1].Start
    /\ ~outOfBounds(call.edits[1], Len(call.src))
    /\ ret.err = "overlapping"

\* ------------------------------------------------------------------ the index UniqueEdits returns

UniqueReturned == Returned /\ call.fn = "UniqueEdits"

\* The 0-based positions of the sorted list s whose edit has an immediate
\* predecessor that is a different edit and ends beyond this edit's start.
OverlapPositions(s) ==
    {i \in 1..(Len(s) - 1) : s[i] # s[i + 1] /\ s[i].End > s[i + 1].Start}

\* C30: the index UniqueEdits returns for an overlap is a position of the
\* sorted input list, duplicates counted, of an edit whose immediate
\* predecessor is a non-equivalent edit with End greater than this edit's
\* Start; it is -1 exactly when there is no such position; and for the empty
\* list the index is -1 and the returned list is empty.
C30_IndexIsAnOverlapPosition ==
    UniqueReturned =>
        /\ ret.invalid >= 0 => ret.invalid \in OverlapPositions(SortEdits(call.edits))
        /\ ret.invalid = -1 <=> OverlapPositions(SortEdits(call.edits)) = {}
        /\ ret.invalid >= -1
        /\ call.edits = <<>> => (ret.unique = <<>> /\ ret.invalid = -1)

\* An overlap behind a duplicate: the index counts the duplicate.
C30_Witness ==
    /\ UniqueReturned
    /\ Len(call.edits) = 3
    /\ ret.invalid = 2
    /\ Len(ret.unique) = 2
    /\ ret.sorted[1] = ret.sorted[2]
    /\ ret.sorted[2].End > ret.sorted[3].Start

\* ------------------------------------------------------------------ properties of SavePatchesToFile, LoadPatchesFromFile

PatchesLoaded == pc = "returned" /\ call.fn = "SavePatchesToFile"

\* C23: for every map of file path to patch text, loading the file a successful
\* SavePatchesToFile wrote returns, without error, a map equal to the one
\* saved; the file of an empty map has no bytes.
C23_SaveThenLoadReturnsTheMap ==
    (PatchesLoaded /\ call.writable) =>
        /\ ret.saveErr = "nil"
        /\ ret.err = "nil"
        /\ ret.patches = call.patches
        /\ DOMAIN call.patches = {} => ret.file = WrittenWith(<<>>)

====
